---- MODULE Spec2Model ----
(***************************************************************************)
(* Model of cleanup_models_json.py (llm-gateway-v2, bedrock provider):     *)
(* cost normalization, default pricing, status organization, alias         *)
(* extraction and the decimal serializer.                                  *)
(*                                                                         *)
(* Python strings are sequences of one-character strings, so that lower()  *)
(* and the substring test "p in s" are computed, not assumed.              *)
(* Python numbers are decimal values m * 10^-e, tagged int or float; the   *)
(* binary rounding error of IEEE doubles is abstracted away.               *)
(***************************************************************************)
EXTENDS Integers, Sequences, FiniteSets, TLC

VARIABLES
    VENDOR_MULTIPLIERS,  \* the module-level multiplier table
    pc,                  \* position of cleanup_models_json
    args,                \* the parsed command line of the run
    models_file,         \* contents of models.json on storage
    status_file,         \* contents of status.json on storage
    aliases_file,        \* contents of aliases.json on storage
    models_data,         \* the catalog in memory
    aliases_data,        \* the alias table in memory
    status_data,         \* the status tree in memory
    vi, mi,              \* loop positions: vendor group, model
    log,                 \* the warnings and errors logged by the run
    pre,                 \* the three files as they were when the run began
    run,                 \* how many runs of the script have begun
    n_in, n_prev, n_cur, n_step,   \* normalize_cost_structure applied repeatedly
    f_val, f_places, f_str,        \* the serializer applied to one float
    json_str, json_sub             \* the serializer's second pass applied to a text

vars == <<VENDOR_MULTIPLIERS, pc, args, models_file, status_file, aliases_file,
          models_data, aliases_data, status_data, vi, mi, log, pre, run,
          n_in, n_prev, n_cur, n_step, f_val, f_places, f_str, json_str, json_sub>>

pipeVars == <<pc, args, models_file, status_file, aliases_file,
              models_data, aliases_data, status_data, vi, mi, log, pre, run>>
normVars == <<n_in, n_prev, n_cur, n_step>>
fmtVars == <<f_val, f_places, f_str>>
subVars == <<json_str, json_sub>>

-----------------------------------------------------------------------------
\* Strings

\* Keys of VENDOR_MULTIPLIERS and the vendor names get_default_pricing compares with.
K_anthropic == <<"a", "n", "t", "h", "r", "o", "p", "i", "c">>
K_meta == <<"m", "e", "t", "a">>
K_mistral_ai == <<"m", "i", "s", "t", "r", "a", "l", " ", "a", "i">>
K_cohere == <<"c", "o", "h", "e", "r", "e">>
K_ai21_labs == <<"a", "i", "2", "1", " ", "l", "a", "b", "s">>
K_default == <<"d", "e", "f", "a", "u", "l", "t">>
K_amazon == <<"a", "m", "a", "z", "o", "n">>

\* The modelId substrings get_default_pricing searches for.
P_claude_3_opus == <<"c", "l", "a", "u", "d", "e", "-", "3", "-", "o", "p", "u", "s">>
P_claude_3_sonnet == <<"c", "l", "a", "u", "d", "e", "-", "3", "-", "s", "o", "n", "n", "e", "t">>
P_claude_3_haiku == <<"c", "l", "a", "u", "d", "e", "-", "3", "-", "h", "a", "i", "k", "u">>
P_claude_3 == <<"c", "l", "a", "u", "d", "e", "-", "3">>
P_70b == <<"7", "0", "b">>
P_large == <<"l", "a", "r", "g", "e">>
P_small == <<"s", "m", "a", "l", "l">>

\* Sample vendor names as they stand in a catalog document (mixed case).
V_Anthropic == <<"A", "n", "t", "h", "r", "o", "p", "i", "c">>
V_Meta == <<"M", "e", "t", "a">>
V_META == <<"M", "E", "T", "A">>
V_Mistral_AI == <<"M", "i", "s", "t", "r", "a", "l", " ", "A", "I">>
V_Amazon == <<"A", "m", "a", "z", "o", "n">>
V_Cohere == <<"C", "o", "h", "e", "r", "e">>
V_Acme == <<"A", "c", "m", "e">>

\* Sample model identifiers.
Id_claude_3_opus == <<"c", "l", "a", "u", "d", "e", "-", "3", "-", "o", "p", "u", "s", "-", "v", "1">>
Id_claude_3_5_sonnet == <<"c", "l", "a", "u", "d", "e", "-", "3", "-", "5", "-", "s", "o", "n", "n", "e", "t">>
Id_claude_3_haiku == <<"c", "l", "a", "u", "d", "e", "-", "3", "-", "h", "a", "i", "k", "u">>
Id_claude_3_sonnet == <<"c", "l", "a", "u", "d", "e", "-", "3", "-", "s", "o", "n", "n", "e", "t">>
Id_claude_v2 == <<"c", "l", "a", "u", "d", "e", "-", "v", "2">>
Id_Llama_70B == <<"L", "l", "a", "m", "a", "3", "-", "7", "0", "B">>
Id_llama_70b == <<"l", "l", "a", "m", "a", "3", "-", "7", "0", "b">>
Id_llama_8b == <<"l", "l", "a", "m", "a", "3", "-", "8", "b">>
Id_mistral_large == <<"m", "i", "s", "t", "r", "a", "l", "-", "l", "a", "r", "g", "e">>
Id_small_large == <<"s", "m", "a", "l", "l", "-", "l", "a", "r", "g", "e">>
Id_mistral_small == <<"m", "i", "s", "t", "r", "a", "l", "-", "s", "m", "a", "l", "l">>
Id_titan_text == <<"t", "i", "t", "a", "n", "-", "t", "e", "x", "t">>
Id_llama3_2e_1b == <<"l", "l", "a", "m", "a", "3", "-", "2", "e", "-", "1", "b">>

\* Sample aliases and other strings.
A_claude_v3 == <<"c", "l", "a", "u", "d", "e", "-", "v", "3">>
A_latest == <<"l", "a", "t", "e", "s", "t">>
A_fast == <<"f", "a", "s", "t">>
S_bedrock == <<"b", "e", "d", "r", "o", "c", "k">>
S_free == <<"f", "r", "e", "e">>

UpperAlphabet == <<"A", "B", "C", "D", "E", "F", "G", "H", "I", "J", "K", "L", "M", "N", "O", "P", "Q", "R", "S", "T", "U", "V", "W", "X", "Y", "Z">>
LowerAlphabet == <<"a", "b", "c", "d", "e", "f", "g", "h", "i", "j", "k", "l", "m", "n", "o", "p", "q", "r", "s", "t", "u", "v", "w", "x", "y", "z">>

\* str.lower() on one character
LowerChar(c) ==
    IF \E i \in DOMAIN UpperAlphabet : UpperAlphabet[i] = c
    THEN LowerAlphabet[CHOOSE i \in DOMAIN UpperAlphabet : UpperAlphabet[i] = c]
    ELSE c

\* str.lower()
Lower(s) == [i \in DOMAIN s |-> LowerChar(s[i])]

\* the Python test "p in s" on strings
Contains(p, s) ==
    \E i \in 0..(Len(s) - Len(p)) : SubSeq(s, i + 1, i + Len(p)) = p

\* dict.get(k, default)
Get(d, k, default) == IF k \in DOMAIN d THEN d[k] ELSE default

\* d[k] = v on a dict
Put(d, k, v) == [x \in (DOMAIN d) \cup {k} |-> IF x = k THEN v ELSE d[x]]

-----------------------------------------------------------------------------
\* Python values found in a cost tier

\* a decimal m * 10^-e in lowest form: no trailing zero in m while e > 0
RECURSIVE NormDec(_, _)
NormDec(m, e) ==
    IF e > 0 /\ m % 10 = 0 THEN NormDec(m \div 10, e - 1) ELSE <<m, e>>

\* a Python float of value m * 10^-e
FloatV(m, e) ==
    LET n == NormDec(m, e) IN [kind |-> "float", m |-> n[1], e |-> n[2]]

\* a Python int
IntV(n) == [kind |-> "int", m |-> n, e |-> 0]

\* a Python str
StrV(s) == [kind |-> "str", s |-> s]

\* a Python dict
DictV(d) == [kind |-> "dict", d |-> d]

\* isinstance(v, (int, float))
IsNumber(v) == v.kind \in {"int", "float"}

\* isinstance(v, dict) and "input" in v and "output" in v
IsSplit(v) == v.kind = "dict" /\ "input" \in DOMAIN v.d /\ "output" \in DOMAIN v.d

\* a * b on Python numbers: int * int is an int, anything else a float
Mul(a, b) ==
    IF a.kind = "int" /\ b.kind = "int"
    THEN IntV(a.m * b.m)
    ELSE FloatV(a.m * b.m, a.e + b.e)

\* {"input": i, "output": o}
Tier(i, o) == DictV([input |-> i, output |-> o])

-----------------------------------------------------------------------------
\* get_default_pricing

\* model.get("access", {}).get("provisionable", False)
Provisionable(model) == Get(Get(model, "access", <<>>), "provisionable", FALSE)

\* the mutation: provisioned pricing copied from on-demand, without the discount
DefaultProvisioned_NoDiscount(onDemand) == onDemand

\* the provisioned tier derived from the default on-demand tier
DefaultProvisioned(onDemand) ==
    Tier(Mul(onDemand.d.input, FloatV(8, 1)), Mul(onDemand.d.output, FloatV(8, 1)))

\* the mutation: the generic "claude-3" test moved to the front of the chain
AnthropicOnDemand_GenericFirst(model_id, fallback) ==
    IF Contains(P_claude_3, model_id) THEN Tier(FloatV(80, 7), FloatV(240, 7))
    ELSE IF Contains(P_claude_3_opus, model_id) THEN Tier(FloatV(150, 7), FloatV(450, 7))
    ELSE IF Contains(P_claude_3_sonnet, model_id) THEN Tier(FloatV(50, 7), FloatV(150, 7))
    ELSE IF Contains(P_claude_3_haiku, model_id) THEN Tier(FloatV(13, 7), FloatV(38, 7))
    ELSE fallback

\* the chain under vendor == "anthropic"
AnthropicOnDemand(model_id, fallback) ==
    IF Contains(P_claude_3_opus, model_id) THEN Tier(FloatV(150, 7), FloatV(450, 7))
    ELSE IF Contains(P_claude_3_sonnet, model_id) THEN Tier(FloatV(50, 7), FloatV(150, 7))
    ELSE IF Contains(P_claude_3_haiku, model_id) THEN Tier(FloatV(13, 7), FloatV(38, 7))
    ELSE IF Contains(P_claude_3, model_id) THEN Tier(FloatV(80, 7), FloatV(240, 7))
    ELSE fallback

\* the on-demand tier chosen by the if/elif chain
DefaultOnDemand(model) ==
    LET vendor == Lower(Get(model, "vendor", <<>>))
        model_id == Lower(Get(model, "modelId", <<>>))
        modalities == Get(Get(model, "capabilities", <<>>), "modalities", <<>>)
        output_modalities == Get(modalities, "output", <<>>)
        Has(x) == \E i \in DOMAIN output_modalities : output_modalities[i] = x
        fallback == Tier(FloatV(100, 7), FloatV(300, 7))
    IN  IF vendor = K_anthropic THEN AnthropicOnDemand(model_id, fallback)
        ELSE IF vendor = K_meta THEN
            IF Contains(P_70b, model_id) THEN Tier(FloatV(35, 7), FloatV(70, 7))
            ELSE Tier(FloatV(10, 7), FloatV(20, 7))
        ELSE IF vendor = K_mistral_ai THEN
            IF Contains(P_large, model_id) THEN Tier(FloatV(40, 7), FloatV(80, 7))
            ELSE IF Contains(P_small, model_id) THEN Tier(FloatV(10, 7), FloatV(20, 7))
            ELSE Tier(FloatV(20, 7), FloatV(40, 7))
        ELSE IF vendor = K_amazon THEN
            IF Has("EMBEDDING") THEN Tier(FloatV(3, 7), FloatV(0, 7))
            ELSE IF Has("IMAGE") THEN Tier(FloatV(80, 7), FloatV(10000, 7))
            ELSE fallback
        ELSE fallback

get_default_pricing(model) ==
    LET onDemand == DefaultOnDemand(model)
    IN  IF Provisionable(model)
        THEN [onDemand |-> onDemand, provisioned |-> DefaultProvisioned(onDemand)]
        ELSE [onDemand |-> onDemand]

-----------------------------------------------------------------------------
\* normalize_cost_structure

\* the mutation: the vendor looked up as written, not lower-cased
Multiplier_NoLower(model) ==
    Get(VENDOR_MULTIPLIERS, Get(model, "vendor", <<>>), VENDOR_MULTIPLIERS[K_default])

\* VENDOR_MULTIPLIERS.get(vendor, VENDOR_MULTIPLIERS["default"])
Multiplier(model) ==
    LET vendor == Lower(Get(model, "vendor", <<>>))
    IN  Get(VENDOR_MULTIPLIERS, vendor, VENDOR_MULTIPLIERS[K_default])

\* the mutation: the multiplier applied to the output of a split tier as well
NormalizeTier_Remultiply(model, tier) ==
    IF IsSplit(tier) THEN Tier(tier.d.input, Mul(tier.d.output, Multiplier(model)))
    ELSE IF IsNumber(tier) THEN Tier(tier, Mul(tier, Multiplier(model)))
    ELSE tier

\* the mutation: a tier of unknown format replaced by the default on-demand tier
NormalizeTier_UnknownReplaced(model, tier) ==
    IF IsSplit(tier) THEN tier
    ELSE IF IsNumber(tier) THEN Tier(tier, Mul(tier, Multiplier(model)))
    ELSE get_default_pricing(model).onDemand

\* one present tier: kept when split, converted when a flat rate, kept otherwise
NormalizeTier(model, tier) ==
    IF IsSplit(tier) THEN tier
    ELSE IF IsNumber(tier) THEN Tier(tier, Mul(tier, Multiplier(model)))
    ELSE tier

\* the mutation: no provisioned tier synthesized for a provisionable model
NormalizedCost_NoProvisioned(model) ==
    LET cost_per_token == model.costPerToken
        onDemand == IF "onDemand" \in DOMAIN cost_per_token
                    THEN NormalizeTier(model, cost_per_token.onDemand)
                    ELSE get_default_pricing(model).onDemand
        base == [onDemand |-> onDemand]
    IN  IF "provisioned" \in DOMAIN cost_per_token
        THEN Put(base, "provisioned", NormalizeTier(model, cost_per_token.provisioned))
        ELSE base

\* normalized_cost, built from a model that has a costPerToken
NormalizedCost(model) ==
    LET cost_per_token == model.costPerToken
        onDemand == IF "onDemand" \in DOMAIN cost_per_token
                    THEN NormalizeTier(model, cost_per_token.onDemand)
                    ELSE get_default_pricing(model).onDemand
        base == [onDemand |-> onDemand]
    IN  IF "provisioned" \in DOMAIN cost_per_token
        THEN Put(base, "provisioned", NormalizeTier(model, cost_per_token.provisioned))
        ELSE IF Provisionable(model) /\ "provisioned" \in DOMAIN get_default_pricing(model)
        THEN Put(base, "provisioned", get_default_pricing(model).provisioned)
        ELSE base

normalize_cost_structure(model) ==
    IF "costPerToken" \notin DOMAIN model
    THEN Put(model, "costPerToken", get_default_pricing(model))
    ELSE Put(model, "costPerToken", NormalizedCost(model))


-----------------------------------------------------------------------------
\* The multiplier table

\* VENDOR_MULTIPLIERS as the module defines it
InitialMultipliers ==
    (K_anthropic :> FloatV(30, 1)) @@ (K_meta :> FloatV(20, 1)) @@
    (K_mistral_ai :> FloatV(20, 1)) @@ (K_cohere :> FloatV(15, 1)) @@
    (K_ai21_labs :> FloatV(20, 1)) @@ (K_default :> FloatV(30, 1))

\* VENDOR_MULTIPLIERS[key] = value
SetMultiplier(table, key, value) ==
    [k \in (DOMAIN table) \cup {key} |-> IF k = key THEN value ELSE table[k]]

-----------------------------------------------------------------------------
\* Inputs of the normalization runs

Vendors == {V_Anthropic, V_Meta, V_META, V_Mistral_AI, V_Amazon, V_Cohere, V_Acme}

ModelIds == {Id_claude_3_opus, Id_claude_3_5_sonnet, Id_claude_3_haiku,
             Id_claude_3_sonnet, Id_claude_v2, Id_Llama_70B, Id_llama_70b,
             Id_llama_8b, Id_mistral_large, Id_small_large, Id_mistral_small,
             Id_titan_text}

\* (vendor, modelId, output modalities) of the sample models
Identities ==
    {<<v, id, <<"TEXT">> >> : v \in Vendors, id \in ModelIds}
    \cup {<<V_Amazon, Id_titan_text, om>> :
            om \in {<<"EMBEDDING">>, <<"IMAGE">>, <<"TEXT", "IMAGE", "EMBEDDING">>}}

AccessShapes ==
    {[onDemand |-> TRUE, provisionable |-> TRUE],
     [onDemand |-> TRUE, provisionable |-> FALSE],
     [onDemand |-> FALSE]}

\* a tier as a catalog may hold it: flat rate, split, or neither
TierShapes ==
    {FloatV(8, 6), IntV(2), Tier(FloatV(2, 5), FloatV(6, 5)),
     DictV([input |-> FloatV(5, 6)]), StrV(S_free)}

CostShapes ==
    {[onDemand |-> a, provisioned |-> b] : a \in TierShapes, b \in TierShapes}
    \cup {[onDemand |-> a] : a \in TierShapes}
    \cup {[provisioned |-> b] : b \in TierShapes}
    \cup {<<>>}

BaseModel(idn, access) ==
    [modelId |-> idn[2], provider |-> S_bedrock, vendor |-> idn[1],
     capabilities |-> [modalities |-> [input |-> <<"TEXT">>, output |-> idn[3]]],
     access |-> access]

NormModels ==
    {BaseModel(idn, a) : idn \in Identities, a \in AccessShapes}
    \cup {Put(BaseModel(idn, a), "costPerToken", c) :
            idn \in Identities, a \in AccessShapes, c \in CostShapes}

MultiplierTables ==
    {InitialMultipliers,
     SetMultiplier(SetMultiplier(InitialMultipliers, K_meta, FloatV(25, 1)),
                   K_default, FloatV(4, 0))}

\* how many times in a row normalize_cost_structure is applied to a record
MaxApplications == 2

-----------------------------------------------------------------------------
\* Specification of the normalizer alone

PipeIdle ==
    /\ pc = "off" /\ args = <<>> /\ models_file = <<>> /\ status_file = <<>>
    /\ aliases_file = <<>> /\ models_data = <<>> /\ aliases_data = <<>>
    /\ status_data = <<>> /\ vi = 0 /\ mi = 0 /\ log = {} /\ pre = <<>> /\ run = 0

NormIdle == n_in = <<>> /\ n_prev = <<>> /\ n_cur = <<>> /\ n_step = 0

FmtIdle == f_val = 0 /\ f_places = 0 /\ f_str = <<>>

SubIdle == json_str = <<>> /\ json_sub = <<>>

NormInit ==
    /\ VENDOR_MULTIPLIERS \in MultiplierTables
    /\ n_in \in NormModels
    /\ n_prev = n_in /\ n_cur = n_in /\ n_step = 0
    /\ PipeIdle /\ FmtIdle /\ SubIdle

\* model = normalize_cost_structure(model)
Normalize ==
    /\ n_step < MaxApplications
    /\ n_prev' = n_cur
    /\ n_cur' = normalize_cost_structure(n_cur)
    /\ n_step' = n_step + 1
    /\ UNCHANGED <<n_in, VENDOR_MULTIPLIERS, pipeVars, fmtVars, subVars>>

NormNext == Normalize

SpecNorm == NormInit /\ [][NormNext]_vars


-----------------------------------------------------------------------------
\* Claims about the normalizer (checked under SpecNorm)

\* the input record supplied this tier
Supplied(model, tier) ==
    "costPerToken" \in DOMAIN model /\ tier \in DOMAIN model.costPerToken

\* C2: normalize_cost_structure is idempotent: applying it to a record it has
\* already normalized returns that record unchanged.
C2_Idempotent == n_step >= 2 => n_cur = n_prev

\* C2 witness: a record with a flat on-demand rate, rewritten by the first
\* application, has been normalized a second time.
C2_Witness ==
    /\ n_step = 2
    /\ Supplied(n_in, "onDemand") /\ IsNumber(n_in.costPerToken.onDemand)
    /\ n_prev # n_in

\* C3: after normalization the record has a costPerToken.onDemand tier, and
\* has a provisioned tier exactly when access.provisionable is true or the input
\* already carried a provisioned tier.
C3_TierPresence ==
    n_step = 1 =>
        /\ "costPerToken" \in DOMAIN n_cur
        /\ "onDemand" \in DOMAIN n_cur.costPerToken
        /\ ("provisioned" \in DOMAIN n_cur.costPerToken
              <=> (Provisionable(n_in) \/ Supplied(n_in, "provisioned")))

\* C3 witness: a provisionable model whose costPerToken had no provisioned
\* tier (and no on-demand tier either) has been normalized and carries both.
C3_Witness ==
    /\ n_step = 1
    /\ Provisionable(n_in)
    /\ "costPerToken" \in DOMAIN n_in /\ DOMAIN n_in.costPerToken = {}
    /\ DOMAIN n_cur.costPerToken = {"onDemand", "provisioned"}

\* The rule table of the default-pricing section, top to bottom. An empty
\* vendor matches every vendor, an empty pattern every modelId, an empty
\* modality every model.
RuleTable ==
    << [vendor |-> K_anthropic, pattern |-> P_claude_3_opus, modality |-> "", price |-> Tier(FloatV(150, 7), FloatV(450, 7))],
       [vendor |-> K_anthropic, pattern |-> P_claude_3_sonnet, modality |-> "", price |-> Tier(FloatV(5, 6), FloatV(15, 6))],
       [vendor |-> K_anthropic, pattern |-> P_claude_3_haiku, modality |-> "", price |-> Tier(FloatV(13, 7), FloatV(38, 7))],
       [vendor |-> K_anthropic, pattern |-> P_claude_3, modality |-> "", price |-> Tier(FloatV(8, 6), FloatV(24, 6))],
       [vendor |-> K_meta, pattern |-> P_70b, modality |-> "", price |-> Tier(FloatV(35, 7), FloatV(7, 6))],
       [vendor |-> K_meta, pattern |-> <<>>, modality |-> "", price |-> Tier(FloatV(1, 6), FloatV(2, 6))],
       [vendor |-> K_mistral_ai, pattern |-> P_large, modality |-> "", price |-> Tier(FloatV(4, 6), FloatV(8, 6))],
       [vendor |-> K_mistral_ai, pattern |-> P_small, modality |-> "", price |-> Tier(FloatV(1, 6), FloatV(2, 6))],
       [vendor |-> K_mistral_ai, pattern |-> <<>>, modality |-> "", price |-> Tier(FloatV(2, 6), FloatV(4, 6))],
       [vendor |-> K_amazon, pattern |-> <<>>, modality |-> "EMBEDDING", price |-> Tier(FloatV(3, 7), FloatV(0, 0))],
       [vendor |-> K_amazon, pattern |-> <<>>, modality |-> "IMAGE", price |-> Tier(FloatV(8, 6), FloatV(1, 3))],
       [vendor |-> <<>>, pattern |-> <<>>, modality |-> "", price |-> Tier(FloatV(1, 5), FloatV(3, 5))] >>

RowMatches(row, vendor, model_id, output_modalities) ==
    /\ row.vendor = <<>> \/ row.vendor = vendor
    /\ Contains(row.pattern, model_id)
    /\ row.modality = "" \/ \E i \in DOMAIN output_modalities : output_modalities[i] = row.modality

\* the price of the first row of RuleTable that matches
FirstMatch(vendor, model_id, output_modalities) ==
    LET hits == {i \in DOMAIN RuleTable :
                    RowMatches(RuleTable[i], vendor, model_id, output_modalities)}
        first == CHOOSE i \in hits : \A j \in hits : i <= j
    IN  RuleTable[first].price

\* the table's price for a record, the modelId compared as written
TablePriceAsWritten(model) ==
    FirstMatch(Lower(model.vendor), model.modelId, model.capabilities.modalities.output)

\* the table's price for a record, the modelId lower-cased as the vendor is
TablePrice(model) ==
    FirstMatch(Lower(model.vendor), Lower(model.modelId), model.capabilities.modalities.output)

\* C6 (as claimed): a record without cost data gets the on-demand price of the
\* first matching row of the rule table, the vendor compared case-insensitively
\* and the patterns searched in the modelId as it is written.
C6_FirstMatchAsWritten ==
    (n_step = 1 /\ "costPerToken" \notin DOMAIN n_in)
        => n_cur.costPerToken.onDemand = TablePriceAsWritten(n_in)

\* C6 (amended): a record without cost data gets the on-demand price of the
\* first matching row of the rule table, with both the vendor and the modelId
\* lower-cased before they are compared; a record matching several rows gets
\* the earliest, one matching none gets 0.00001 / 0.00003.
C6_FirstMatchLowerCased ==
    (n_step = 1 /\ "costPerToken" \notin DOMAIN n_in)
        => /\ n_cur.costPerToken.onDemand = TablePrice(n_in)
           /\ (Lower(n_in.vendor) = K_meta /\ Contains(P_70b, Lower(n_in.modelId)))
                => n_cur.costPerToken.onDemand = Tier(FloatV(35, 7), FloatV(70, 7))
           /\ (Lower(n_in.vendor) = K_anthropic /\ n_in.modelId = Id_claude_3_5_sonnet)
                => n_cur.costPerToken.onDemand = Tier(FloatV(8, 6), FloatV(24, 6))

\* C6 witness: an anthropic record matching both the "claude-3-opus" row and the
\* generic "claude-3" row has been priced by the earlier row.
C6_Witness ==
    /\ n_step = 1 /\ "costPerToken" \notin DOMAIN n_in
    /\ n_in.vendor = V_Anthropic /\ n_in.modelId = Id_claude_3_opus
    /\ n_cur.costPerToken.onDemand = Tier(FloatV(15, 6), FloatV(45, 6))

\* tier p is 80% of tier t, component by component
EightyPercentOf(p, t) ==
    /\ IsSplit(p) /\ IsSplit(t)
    /\ IsNumber(t.d.input) /\ IsNumber(t.d.output)
    /\ p.d.input = Mul(t.d.input, FloatV(8, 1))
    /\ p.d.output = Mul(t.d.output, FloatV(8, 1))

\* the case of C4: a provisionable model, normalized, whose input had no
\* provisioned pricing
C4_Case == n_step = 1 /\ Provisionable(n_in) /\ ~Supplied(n_in, "provisioned")

\* C4 (as claimed): the synthesized provisioned tier is 80% of the record's own
\* normalized on-demand tier, whether or not the on-demand tier was supplied.
C4_EightyPercentOfOwnOnDemand ==
    C4_Case => EightyPercentOf(n_cur.costPerToken.provisioned, n_cur.costPerToken.onDemand)

\* C4 (amended): the synthesized provisioned tier is 80% of the default
\* on-demand price of the model (the rule table's price for its vendor, modelId
\* and modalities); that is 80% of the record's normalized on-demand tier when
\* the input supplied no on-demand pricing.
C4_EightyPercentOfDefault ==
    C4_Case =>
        /\ EightyPercentOf(n_cur.costPerToken.provisioned, TablePrice(n_in))
        /\ ~Supplied(n_in, "onDemand")
             => EightyPercentOf(n_cur.costPerToken.provisioned, n_cur.costPerToken.onDemand)

\* C4 witness: a provisionable record that supplied a split on-demand tier and
\* no provisioned tier has been normalized and given a provisioned tier.
C4_Witness ==
    /\ C4_Case
    /\ Supplied(n_in, "onDemand") /\ IsSplit(n_in.costPerToken.onDemand)
    /\ "provisioned" \in DOMAIN n_cur.costPerToken

\* the multiplier the claim names: the table's entry for the lower-cased
\* vendor, the "default" entry when there is none
ClaimedMultiplier(vendor) ==
    IF Lower(vendor) \in DOMAIN VENDOR_MULTIPLIERS
    THEN VENDOR_MULTIPLIERS[Lower(vendor)]
    ELSE VENDOR_MULTIPLIERS[K_default]

-----------------------------------------------------------------------------
\* The serializer: process_item on a float (DecimalEncoder.format_float is the
\* same code)

DigitChars == <<"0", "1", "2", "3", "4", "5", "6", "7", "8", "9">>

IsDigit(c) == \E i \in DOMAIN DigitChars : DigitChars[i] = c

RECURSIVE Pow10(_)
Pow10(n) == IF n <= 0 THEN 1 ELSE 10 * Pow10(n - 1)

\* the decimal digits of n >= 0
RECURSIVE IntToStr(_)
IntToStr(n) ==
    IF n < 10 THEN <<DigitChars[n + 1]>>
    ELSE IntToStr(n \div 10) \o <<DigitChars[(n % 10) + 1]>>

\* "0" * n
Zeros(n) == [i \in 1..n |-> "0"]

\* the digits of n, left-padded with zeros to width (nothing when width is 0)
Padded(n, width) ==
    IF width <= 0 THEN <<>>
    ELSE Zeros(width - Len(IntToStr(n))) \o IntToStr(n)

\* f"{item:.{places}f}" for places >= 0. The value is rounded to the nearest
\* multiple of 10^-places; tieUp says which way Python goes when the decimal
\* value lies half-way (Python rounds the binary value of the float, which
\* lies on one side or the other).
FixedPoint(item, places, tieUp) ==
    LET mag == IF item.m < 0 THEN -item.m ELSE item.m
        sign == IF item.m < 0 THEN <<"-">> ELSE <<>>
        drop == item.e - places
        unit == Pow10(drop)
        rem == mag % unit
        up == (2 * rem > unit) \/ (2 * rem = unit /\ tieUp)
        \* q counts units of 10^-width
        width == IF drop > 0 THEN places ELSE item.e
        q == IF drop > 0 THEN (mag \div unit) + (IF up THEN 1 ELSE 0) ELSE mag
        whole == q \div Pow10(width)
        frac == q % Pow10(width)
    IN  sign \o IntToStr(whole)
             \o (IF places > 0
                 THEN <<".">> \o Padded(frac, width) \o Zeros(places - width)
                 ELSE <<>>)

\* str.rstrip(c)
RECURSIVE RStrip(_, _)
RStrip(str, c) ==
    IF Len(str) > 0 /\ str[Len(str)] = c
    THEN RStrip(SubSeq(str, 1, Len(str) - 1), c)
    ELSE str

\* the mutation: the zeros stripped whether or not the text has a point
StripTrailing_Unguarded(float_str) == RStrip(RStrip(float_str, "0"), ".")

\* if '.' in float_str: float_str = float_str.rstrip('0').rstrip('.')
StripTrailing(float_str) ==
    IF \E i \in DOMAIN float_str : float_str[i] = "."
    THEN RStrip(RStrip(float_str, "0"), ".")
    ELSE float_str

\* a negative precision in the format specification raises ValueError
FormatRaises(places) == places < 0

\* process_item on a float, for places >= 0
format_float(item, places, tieUp) == StripTrailing(FixedPoint(item, places, tieUp))

-----------------------------------------------------------------------------
\* The serializer: the second pass of dump_json over the emitted text,
\* re.sub(r'(\d+)\.?(\d*)e([+-]\d+)', scientific_to_decimal, json_str)

\* the last position of the run of digits that starts at i (i - 1 when
\* there is no digit at i)
RECURSIVE DigitRunEnd(_, _)
DigitRunEnd(str, i) ==
    IF i <= Len(str) /\ IsDigit(str[i]) THEN DigitRunEnd(str, i + 1) ELSE i - 1

\* the number a digit string denotes: int(digits)
RECURSIVE DigitsToInt(_)
DigitsToInt(str) ==
    IF Len(str) = 0 THEN 0
    ELSE 10 * DigitsToInt(SubSeq(str, 1, Len(str) - 1))
         + (CHOOSE d \in 0..9 : DigitChars[d + 1] = str[Len(str)])

\* the match of the pattern that starts at position i, if there is one. Both
\* digit groups are greedy, and giving digits back never helps the match, so
\* the groups are the two maximal runs of digits.
MatchAt(str, i) ==
    LET base_end == DigitRunEnd(str, i)
        has_point == base_end + 1 <= Len(str) /\ str[base_end + 1] = "."
        frac_start == IF has_point THEN base_end + 2 ELSE base_end + 1
        frac_end == DigitRunEnd(str, frac_start)
        e_at == frac_end + 1
        exp_end == DigitRunEnd(str, e_at + 2)
        found == /\ base_end >= i
                 /\ e_at + 2 <= Len(str)
                 /\ str[e_at] = "e"
                 /\ str[e_at + 1] \in {"+", "-"}
                 /\ exp_end >= e_at + 2
    IN  IF found
        THEN [found |-> TRUE,
              base |-> SubSeq(str, i, base_end),
              frac |-> SubSeq(str, frac_start, frac_end),
              negative |-> str[e_at + 1] = "-",
              exp |-> DigitsToInt(SubSeq(str, e_at + 2, exp_end)),
              last |-> exp_end]
        ELSE [found |-> FALSE]

\* scientific_to_decimal(match)
scientific_to_decimal(m) ==
    IF ~m.negative /\ m.exp > 0
    THEN IF Len(m.frac) <= m.exp
         THEN m.base \o m.frac \o Zeros(m.exp - Len(m.frac))
         ELSE m.base \o SubSeq(m.frac, 1, m.exp) \o <<".">>
                     \o SubSeq(m.frac, m.exp + 1, Len(m.frac))
    ELSE <<"0", ".">> \o Zeros(m.exp - 1) \o m.base \o m.frac

\* re.sub over the text from position i on: leftmost matches, left to right
RECURSIVE SubFrom(_, _)
SubFrom(str, i) ==
    IF i > Len(str) THEN <<>>
    ELSE IF MatchAt(str, i).found
         THEN scientific_to_decimal(MatchAt(str, i)) \o SubFrom(str, MatchAt(str, i).last + 1)
         ELSE <<str[i]>> \o SubFrom(str, i + 1)

\* the second pass on the text of one JSON string (no match spans the quotes,
\* commas or colons around it)
ReSub(str) == SubFrom(str, 1)

-----------------------------------------------------------------------------
\* dump_json on a catalog

\* process_item on the value of a cost tier: floats become their text
RECURSIVE process_item(_, _, _)
process_item(item, places, tieUp) ==
    IF item.kind = "float" THEN StrV(format_float(item, places, tieUp))
    ELSE IF item.kind = "dict"
    THEN DictV([k \in DOMAIN item.d |-> process_item(item.d[k], places, tieUp)])
    ELSE item

\* the value holds a float somewhere
RECURSIVE HasFloat(_)
HasFloat(item) ==
    \/ item.kind = "float"
    \/ item.kind = "dict" /\ \E k \in DOMAIN item.d : HasFloat(item.d[k])

\* the second pass on the strings of a value
RECURSIVE Repair(_)
Repair(item) ==
    IF item.kind = "str" THEN StrV(ReSub(item.s))
    ELSE IF item.kind = "dict" THEN DictV([k \in DOMAIN item.d |-> Repair(item.d[k])])
    ELSE item

\* the fields of a model record that hold a string
StringFields == {"modelId", "provider", "vendor"}

\* a model record as the written document holds it
DumpModel(model, places, tieUp) ==
    [f \in DOMAIN model |->
        IF f \in StringFields THEN ReSub(model[f])
        ELSE IF f = "costPerToken"
        THEN [k \in DOMAIN model.costPerToken |->
                Repair(process_item(model.costPerToken[k], places, tieUp))]
        ELSE model[f]]

\* the catalog holds a float somewhere (the floats are in the cost tiers)
CatalogHasFloat(vendors) ==
    \E v \in DOMAIN vendors : \E i \in DOMAIN vendors[v].models :
        LET model == vendors[v].models[i] IN
        /\ "costPerToken" \in DOMAIN model
        /\ \E k \in DOMAIN model.costPerToken : HasFloat(model.costPerToken[k])

\* dump_json raises, the file being open for writing and still empty
DumpRaises(vendors, places) == FormatRaises(places) /\ CatalogHasFloat(vendors)

\* the document dump_json writes, as json.load reads it back
dump_json(vendors, places, tieUp) ==
    [v \in DOMAIN vendors |->
        [name |-> ReSub(vendors[v].name),
         models |-> [i \in DOMAIN vendors[v].models |->
                        DumpModel(vendors[v].models[i], places, tieUp)]]]

-----------------------------------------------------------------------------
\* clean_model_config and the alias extraction of the cleaning loop

\* the mutation: "access" not copied into (and so not required by) clean_config
RequiredFields_NoAccess == {"modelId", "provider", "vendor", "capabilities"}

\* the keys clean_config is built from with model[...]
RequiredFields == {"modelId", "provider", "vendor", "capabilities", "access"}

\* clean_model_config raises KeyError
CleanRaises(model) == \E f \in RequiredFields : f \notin DOMAIN model

clean_model_config(model) ==
    Put([f \in RequiredFields |-> model[f]],
        "costPerToken", normalize_cost_structure(model).costPerToken)

\* the mutation: the aliases looked up in the cleaned record
AliasRecords_FromClean(model) ==
    LET cleaned == clean_model_config(model)
    IN  IF "aliases" \in DOMAIN cleaned
        THEN [i \in DOMAIN cleaned.aliases |->
                [modelId |-> cleaned.modelId, alias |-> cleaned.aliases[i]]]
        ELSE <<>>

\* the records the loop appends to aliases_data["aliases"] for one model
AliasRecords(model) ==
    IF "aliases" \in DOMAIN model
    THEN [i \in DOMAIN model.aliases |->
            [modelId |-> model.modelId, alias |-> model.aliases[i]]]
    ELSE <<>>

\* a line of the log
Logged(level, what, model_id) == [level |-> level, what |-> what, model |-> model_id]

\* the warnings normalize_cost_structure logs for a model
NormalizeWarnings(model) ==
    IF "costPerToken" \notin DOMAIN model
    THEN {Logged("warning", "no costPerToken, default pricing generated", model.modelId)}
    ELSE LET c == model.costPerToken IN
         (IF "onDemand" \notin DOMAIN c
          THEN {Logged("warning", "default onDemand pricing generated", model.modelId)}
          ELSE IF ~IsSplit(c.onDemand) /\ ~IsNumber(c.onDemand)
          THEN {Logged("warning", "unknown onDemand cost format", model.modelId)}
          ELSE {})
         \cup
         (IF "provisioned" \in DOMAIN c
          THEN IF ~IsSplit(c.provisioned) /\ ~IsNumber(c.provisioned)
               THEN {Logged("warning", "unknown provisioned cost format", model.modelId)}
               ELSE {}
          ELSE IF Provisionable(model)
          THEN {Logged("warning", "default provisioned pricing generated", model.modelId)}
          ELSE {})

-----------------------------------------------------------------------------
\* organize_status_data

\* the mutation: a provisionable model counted as ready too
IsOnDemand_OrProvisionable(model) ==
    Get(Get(model, "access", <<>>), "onDemand", FALSE)
    \/ Get(Get(model, "access", <<>>), "provisionable", FALSE)

\* model.get('access', {}).get('onDemand', False)
IsOnDemand(model) == Get(Get(model, "access", <<>>), "onDemand", FALSE)

\* get_or_create_vendor(vendors_list, vendor_name), then the append to its models
AddToVendor(vendors_list, vendor_name, entry) ==
    IF \E i \in DOMAIN vendors_list : vendors_list[i].name = vendor_name
    THEN LET i == CHOOSE k \in DOMAIN vendors_list :
                    /\ vendors_list[k].name = vendor_name
                    /\ \A j \in 1..(k - 1) : vendors_list[j].name # vendor_name
         IN  [vendors_list EXCEPT ![i].models = Append(@, entry)]
    ELSE Append(vendors_list, [name |-> vendor_name, models |-> <<entry>>])

\* the catalog as the nested loops visit it: (vendor name, model) pairs
RECURSIVE Visit(_, _)
Visit(vendors, v) ==
    IF v > Len(vendors) THEN <<>>
    ELSE [i \in DOMAIN vendors[v].models |->
            [vendor_name |-> vendors[v].name, model |-> vendors[v].models[i]]]
         \o Visit(vendors, v + 1)

\* the mutation: a provisionable model that is not on demand filed under
\* READY/PROVISIONED
RECURSIVE OrganizeFrom_ProvisionedReady(_, _, _)
OrganizeFrom_ProvisionedReady(items, k, tree) ==
    IF k > Len(items) THEN tree
    ELSE LET entry == [modelId |-> items[k].model.modelId, billing |-> "ONDEMAND"]
         IN  IF IsOnDemand(items[k].model)
             THEN OrganizeFrom_ProvisionedReady(items, k + 1,
                    [tree EXCEPT !.ondemand = AddToVendor(@, items[k].vendor_name, entry)])
             ELSE IF Provisionable(items[k].model)
             THEN OrganizeFrom_ProvisionedReady(items, k + 1,
                    [tree EXCEPT !.provisioned = AddToVendor(@, items[k].vendor_name, entry)])
             ELSE OrganizeFrom_ProvisionedReady(items, k + 1,
                    [tree EXCEPT !.not_ready = AddToVendor(@, items[k].vendor_name, entry)])

\* the loop body, from the k-th visited model on
RECURSIVE OrganizeFrom(_, _, _)
OrganizeFrom(items, k, tree) ==
    IF k > Len(items) THEN tree
    ELSE LET entry == [modelId |-> items[k].model.modelId, billing |-> "ONDEMAND"]
         IN  IF IsOnDemand(items[k].model)
             THEN OrganizeFrom(items, k + 1,
                    [tree EXCEPT !.ondemand = AddToVendor(@, items[k].vendor_name, entry)])
             ELSE OrganizeFrom(items, k + 1,
                    [tree EXCEPT !.not_ready = AddToVendor(@, items[k].vendor_name, entry)])

organize_status_data(vendors) ==
    LET tree == OrganizeFrom(Visit(vendors, 1), 1,
                             [ondemand |-> <<>>, provisioned |-> <<>>, not_ready |-> <<>>])
    IN  [statuses |->
           << [status |-> "READY",
               connections |-> << [type |-> "ONDEMAND", vendors |-> tree.ondemand],
                                  [type |-> "PROVISIONED", vendors |-> tree.provisioned] >>],
              [status |-> "NOT_READY", vendors |-> tree.not_ready] >>]

-----------------------------------------------------------------------------
\* validate_model_costs

\* the warnings for one tier of one model
TierWarnings(model, tier) ==
    LET value == model.costPerToken[tier] IN
    IF value.kind # "dict"
    THEN {Logged("warning",
                 IF tier = "onDemand" THEN "onDemand pricing not in input/output format"
                 ELSE "provisioned pricing not in input/output format",
                 model.modelId)}
    ELSE IF "input" \notin DOMAIN value.d \/ "output" \notin DOMAIN value.d
    THEN {Logged("warning",
                 IF tier = "onDemand" THEN "onDemand pricing missing input or output fields"
                 ELSE "provisioned pricing missing input or output fields",
                 model.modelId)}
    ELSE {}

ModelWarnings(model) ==
    IF "costPerToken" \notin DOMAIN model
    THEN {Logged("warning", "missing costPerToken", model.modelId)}
    ELSE (IF "onDemand" \notin DOMAIN model.costPerToken
          THEN {Logged("warning", "missing onDemand pricing", model.modelId)}
          ELSE TierWarnings(model, "onDemand"))
         \cup
         (IF "provisioned" \in DOMAIN model.costPerToken
          THEN TierWarnings(model, "provisioned")
          ELSE {})

validate_model_costs(vendors) ==
    UNION {UNION {ModelWarnings(vendors[v].models[i]) : i \in DOMAIN vendors[v].models} :
             v \in DOMAIN vendors}

-----------------------------------------------------------------------------
\* float(text) on a command-line argument; the texts modelled are plain
\* decimals (digits, optionally a point and more digits) and texts that are
\* no number at all

\* the text without its sign
Unsigned(str) == IF Len(str) > 0 /\ str[1] = "-" THEN Tail(str) ELSE str

\* the position of the decimal point, 0 when there is none
PointAt(str) ==
    IF \E i \in DOMAIN str : str[i] = "."
    THEN CHOOSE i \in DOMAIN str : str[i] = "." /\ \A j \in 1..(i - 1) : str[j] # "."
    ELSE 0

WholeDigits(str) ==
    IF PointAt(str) = 0 THEN str ELSE SubSeq(str, 1, PointAt(str) - 1)

FractionDigits(str) ==
    IF PointAt(str) = 0 THEN <<>> ELSE SubSeq(str, PointAt(str) + 1, Len(str))

AllDigits(str) == \A i \in DOMAIN str : IsDigit(str[i])

\* float(text) returns (it raises ValueError otherwise)
FloatParses(text) ==
    LET u == Unsigned(text)
    IN  /\ Len(WholeDigits(u)) >= 1
        /\ AllDigits(WholeDigits(u))
        /\ AllDigits(FractionDigits(u))

\* float(text)
ParseFloat(text) ==
    LET u == Unsigned(text)
        digits == DigitsToInt(WholeDigits(u) \o FractionDigits(u))
    IN  FloatV(IF Len(text) > 0 /\ text[1] = "-" THEN -digits ELSE digits,
               Len(FractionDigits(u)))

-----------------------------------------------------------------------------
\* cleanup_models_json: the command line and the files

\* a file holding a JSON document, an empty file, no file
File(doc) == [kind |-> "doc", doc |-> doc]
EmptyFile == [kind |-> "empty"]
NoFile == [kind |-> "none"]

\* an option that was not given (None)
NoneV == [kind |-> "none"]

\* the loop "for vendor, multiplier in args.update_vendor_multiplier", from
\* the k-th pair on: a multiplier that is no number is logged and skipped
RECURSIVE UpdateMultipliers(_, _, _)
UpdateMultipliers(table, updates, k) ==
    IF k > Len(updates) THEN table
    ELSE IF FloatParses(updates[k].multiplier)
    THEN UpdateMultipliers(
            SetMultiplier(table, Lower(updates[k].vendor), ParseFloat(updates[k].multiplier)),
            updates, k + 1)
    ELSE UpdateMultipliers(table, updates, k + 1)

\* the errors that loop logs
UpdateErrors(updates) ==
    {Logged("error", "invalid multiplier value", updates[k].vendor) :
        k \in {j \in DOMAIN updates : ~FloatParses(updates[j].multiplier)}}

\* "if args.set_default_multiplier:": None and 0.0 leave the table alone
SetDefaultMultiplier(table, value) ==
    IF value.kind = "float" /\ value.m # 0
    THEN SetMultiplier(table, K_default, value)
    ELSE table

\* VENDOR_MULTIPLIERS once the options are applied
ConfiguredMultipliers(a) ==
    SetDefaultMultiplier(UpdateMultipliers(InitialMultipliers, a.update_vendor_multiplier, 1),
                         a.set_default_multiplier)

-----------------------------------------------------------------------------
\* Specification of the serializer on one float

\* the default of --decimal-places and of dump_json's decimal_places
DefaultPlaces == 10

\* the largest precision tried
MaxPlaces == 11

FmtValues ==
    {FloatV(13, 7), FloatV(0, 0), FloatV(1005, 1), FloatV(100, 0), FloatV(25, 1),
     FloatV(999, 3), FloatV(125, 3), FloatV(15, 6), FloatV(104, 8), FloatV(1, 9),
     FloatV(-5, 1), FloatV(-1, 9)}

\* what f_str holds when the format raised
ValueError == <<"ValueError">>

FmtInit ==
    /\ f_val \in FmtValues
    /\ f_places \in (-1)..MaxPlaces
    /\ f_str = <<>>
    /\ VENDOR_MULTIPLIERS = InitialMultipliers
    /\ PipeIdle /\ NormIdle /\ SubIdle

\* process_item(f_val) with decimal_places = f_places
FormatFloat ==
    /\ f_str = <<>>
    /\ \E tieUp \in BOOLEAN :
         f_str' = IF FormatRaises(f_places) THEN ValueError
                  ELSE format_float(f_val, f_places, tieUp)
    /\ UNCHANGED <<f_val, f_places, VENDOR_MULTIPLIERS, pipeVars, normVars, subVars>>

FmtNext == FormatFloat

SpecFmt == FmtInit /\ [][FmtNext]_vars

-----------------------------------------------------------------------------
\* Claims about the serializer (checked under SpecFmt)

\* digits, optionally a point and more digits: no exponent, a digit before the point
PlainDecimal(str) ==
    LET u == Unsigned(str)
    IN  /\ Len(WholeDigits(u)) >= 1
        /\ AllDigits(WholeDigits(u))
        /\ AllDigits(FractionDigits(u))
        /\ \A i \in DOMAIN str : str[i] \notin {"e", "E"}

\* no trailing zero after the point, and no trailing point
ZerosStripped(str) ==
    PointAt(str) > 0 => (str[Len(str)] # "0" /\ str[Len(str)] # ".")

\* the text denotes the value rounded to places decimals
DenotesRounded(str, value, places) ==
    LET u == Unsigned(str)
        pm == DigitsToInt(WholeDigits(u) \o FractionDigits(u))
        pe == Len(FractionDigits(u))
        mag == IF value.m < 0 THEN -value.m ELSE value.m
        diff == pm * Pow10(value.e - pe) - mag
    IN  /\ (str[1] = "-") => value.m < 0
        /\ pe <= places
        /\ IF places >= value.e
           THEN FloatV(pm, pe) = FloatV(mag, value.e)
           ELSE /\ 2 * diff <= Pow10(value.e - places)
                /\ -2 * diff <= Pow10(value.e - places)

\* C8: for every float and every precision P >= 0 the serializer renders the
\* value, rounded to P decimals, with no exponent, the trailing fractional
\* zeros stripped and a digit before the point; 0.0000013 at precision 10 is
\* rendered 0.0000013.
C8_PlainDecimalRendering ==
    (f_str # <<>> /\ f_places >= 0) =>
        /\ PlainDecimal(f_str)
        /\ ZerosStripped(f_str)
        /\ DenotesRounded(f_str, f_val, f_places)
        /\ (f_val = FloatV(13, 7) /\ f_places = DefaultPlaces)
             => f_str = <<"0", ".", "0", "0", "0", "0", "0", "1", "3">>

\* C8 witness: 100.0 has been rendered at precision 0, where the text has no
\* point and ends in zeros that are not fractional.
C8_Witness ==
    /\ f_val = FloatV(100, 0) /\ f_places = 0
    /\ f_str = <<"1", "0", "0">>


-----------------------------------------------------------------------------
\* Specification of the serializer's second pass on one text

\* a numeral in exponent notation: digits[.digits]e[+-]digits
Numerals ==
    {n \in [base : {<<"1">>, <<"5">>, <<"1", "2">>, <<"1", "0">>},
            point : BOOLEAN,
            frac : {<<>>, <<"5">>, <<"2", "5">>, <<"0", "5">>},
            sign : {"+", "-"},
            exp : {<<"0">>, <<"1">>, <<"2">>, <<"3">>, <<"0", "5">>}] :
        n.frac # <<>> => n.point}

NumeralText(n) ==
    n.base \o (IF n.point THEN <<".">> ELSE <<>>) \o n.frac \o <<"e", n.sign>> \o n.exp

\* what stands around the numeral in the emitted text, and what the pass makes
\* of the text after it (", 2e+1" holds a second numeral)
Contexts ==
    {[before |-> <<>>, after |-> <<>>, after_sub |-> <<>>],
     [before |-> <<"\"">>, after |-> <<"\"">>, after_sub |-> <<"\"">>],
     [before |-> <<"v">>, after |-> <<"b">>, after_sub |-> <<"b">>],
     [before |-> <<>>, after |-> <<",", " ", "2", "e", "+", "1">>,
      after_sub |-> <<",", " ", "2", "0">>]}

SubTexts == {c.before \o NumeralText(n) \o c.after : c \in Contexts, n \in Numerals}

SubInit ==
    /\ json_str \in SubTexts
    /\ json_sub = <<>>
    /\ VENDOR_MULTIPLIERS = InitialMultipliers
    /\ PipeIdle /\ NormIdle /\ FmtIdle

\* json_str = re.sub(pattern, scientific_to_decimal, json_str)
Substitute ==
    /\ json_sub = <<>>
    /\ json_sub' = ReSub(json_str)
    /\ UNCHANGED <<json_str, VENDOR_MULTIPLIERS, pipeVars, normVars, fmtVars>>

SubNext == Substitute

SpecSub == SubInit /\ [][SubNext]_vars

-----------------------------------------------------------------------------
\* Claims about the second pass (checked under SpecSub)

\* the value of a numeral in exponent notation, in lowest form
ExactValue(n) ==
    LET m == DigitsToInt(n.base \o n.frac)
        shift == Len(n.frac) - (IF n.sign = "-" THEN -DigitsToInt(n.exp)
                                ELSE DigitsToInt(n.exp))
    IN  IF shift >= 0 THEN NormDec(m, shift) ELSE NormDec(m * Pow10(-shift), 0)

\* the value of a plain decimal numeral, in lowest form
PlainValue(str) ==
    NormDec(DigitsToInt(WholeDigits(str) \o FractionDigits(str)), Len(FractionDigits(str)))

\* C15: the second pass replaces every numeral of the shape
\* digits[.digits]e[+-]digits in the text by a plain decimal numeral of the
\* same value, whatever the length of the integer part and whatever the signed
\* exponent, zero included, and leaves the text around it as it was.
C15_ExponentsRepaired ==
    json_sub # <<>> =>
        \A c \in Contexts : \A n \in Numerals :
            json_str = c.before \o NumeralText(n) \o c.after =>
                LET plain == SubSeq(json_sub, Len(c.before) + 1,
                                    Len(json_sub) - Len(c.after_sub))
                IN  /\ json_sub = c.before \o plain \o c.after_sub
                    /\ PlainDecimal(plain)
                    /\ PlainValue(plain) = ExactValue(n)

-----------------------------------------------------------------------------
\* Inputs of the pipeline runs

\* no costPerToken, two aliases, on demand
ModelA ==
    Put(BaseModel(<<V_Anthropic, Id_claude_3_opus, <<"TEXT">> >>,
                  [onDemand |-> TRUE, provisionable |-> FALSE]),
        "aliases", <<A_claude_v3, A_latest>>)

\* a flat on-demand rate, provisionable and not on demand, no aliases
ModelB ==
    Put(BaseModel(<<V_Meta, Id_Llama_70B, <<"TEXT">> >>,
                  [onDemand |-> FALSE, provisionable |-> TRUE]),
        "costPerToken", [onDemand |-> FloatV(8, 6)])

\* two tiers that are neither a rate nor split (a string, a dict without
\* "output"), one alias
ModelC ==
    Put(Put(BaseModel(<<V_Mistral_AI, Id_small_large, <<"TEXT">> >>,
                      [onDemand |-> TRUE, provisionable |-> FALSE]),
            "costPerToken", [onDemand |-> StrV(S_free),
                             provisioned |-> DictV([input |-> FloatV(5, 6)])]),
        "aliases", <<A_fast>>)

\* a well-formed record, of which the records below each lack one key
ModelD ==
    Put(BaseModel(<<V_Amazon, Id_titan_text, <<"TEXT">> >>,
                  [onDemand |-> TRUE, provisionable |-> TRUE]),
        "aliases", <<A_latest>>)

\* a split on-demand tier, and a modelId that holds "2e-1"
ModelE ==
    Put(BaseModel(<<V_Meta, Id_llama3_2e_1b, <<"TEXT">> >>,
                  [onDemand |-> TRUE, provisionable |-> FALSE]),
        "costPerToken", [onDemand |-> Tier(FloatV(2, 6), FloatV(4, 6))])

Without(model, key) == [f \in (DOMAIN model) \ {key} |-> model[f]]

WellFormed == {ModelA, ModelB, ModelC, ModelE}

\* the keys every model record of a catalog document must carry
SchemaFields == {"modelId", "provider", "vendor", "capabilities", "access"}

Defective == {Without(ModelD, f) : f \in SchemaFields}

\* the most models a catalog holds
MaxModels == 2

\* lists of models, at most one of them defective (the run ends at the first)
ModelLists ==
    {l \in UNION {[1..k -> WellFormed \cup Defective] : k \in 0..MaxModels} :
        Cardinality({i \in DOMAIN l : l[i] \in Defective}) <= 1}

\* catalogs of no, one or two vendor groups; two groups may bear one name
Catalogs ==
    {<<>>}
    \cup {<<[name |-> V_Anthropic, models |-> l]>> : l \in ModelLists}
    \cup UNION {{<<[name |-> V_Anthropic, models |-> SubSeq(l, 1, k)],
                   [name |-> b, models |-> SubSeq(l, k + 1, Len(l))]>> :
                    k \in 0..Len(l), b \in {V_Anthropic, V_Meta}} : l \in ModelLists}

\* --update-vendor-multiplier: not given, a number, not a number
UpdateOptions ==
    {<<>>,
     <<[vendor |-> V_Meta, multiplier |-> <<"2", ".", "5">>]>>,
     <<[vendor |-> V_Meta, multiplier |-> <<"a", "b", "c">>]>>}

ArgsSet ==
    [dry_run : BOOLEAN,
     decimal_places : {-1, DefaultPlaces},
     update_vendor_multiplier : UpdateOptions,
     set_default_multiplier : {NoneV}]

\* how many times the script is run, one run after the other
MaxRuns == 2

-----------------------------------------------------------------------------
\* cleanup_models_json, step by step

Init ==
    /\ VENDOR_MULTIPLIERS = InitialMultipliers
    /\ pc = "idle"
    /\ args \in ArgsSet
    /\ \E vendors \in Catalogs : models_file = File(vendors)
    /\ status_file = NoFile
    /\ aliases_file = NoFile
    /\ models_data = <<>> /\ aliases_data = <<>> /\ status_data = <<>>
    /\ vi = 0 /\ mi = 0 /\ log = {} /\ pre = <<>> /\ run = 0
    /\ NormIdle /\ FmtIdle /\ SubIdle

\* lines 464-497: the options are applied to the multiplier table of the new
\* process and models.json is read; a file that holds no document raises
Start ==
    /\ pc \in {"idle", "done"}
    /\ run < MaxRuns
    /\ run' = run + 1
    /\ pre' = [models |-> models_file, status |-> status_file, aliases |-> aliases_file]
    /\ VENDOR_MULTIPLIERS' = ConfiguredMultipliers(args)
    /\ aliases_data' = <<>>
    /\ status_data' = <<>>
    /\ IF models_file.kind = "doc"
       THEN /\ models_data' = models_file.doc
            /\ log' = UpdateErrors(args.update_vendor_multiplier)
            /\ vi' = 1 /\ mi' = 1
            /\ pc' = "clean"
       ELSE /\ models_data' = <<>>
            /\ log' = UpdateErrors(args.update_vendor_multiplier)
                        \cup {Logged("error", "JSONDecodeError", <<>>)}
            /\ vi' = 0 /\ mi' = 0
            /\ pc' = "done"
    /\ UNCHANGED <<args, models_file, status_file, aliases_file, normVars, fmtVars, subVars>>

\* lines 505-523: one model is cleaned and its aliases are collected
CleanModel ==
    /\ pc = "clean"
    /\ vi <= Len(models_data)
    /\ mi <= Len(models_data[vi].models)
    /\ LET model == models_data[vi].models[mi] IN
       /\ ~CleanRaises(model)
       /\ models_data' = [models_data EXCEPT ![vi].models[mi] = clean_model_config(model)]
       /\ aliases_data' = aliases_data \o AliasRecords(model)
       /\ log' = log \cup NormalizeWarnings(model)
    /\ mi' = mi + 1
    /\ UNCHANGED <<pc, vi, args, VENDOR_MULTIPLIERS, models_file, status_file,
                   aliases_file, status_data, pre, run, normVars, fmtVars, subVars>>

\* lines 316-322, 562-565: a model lacks a required key; the KeyError ends the run
CleanModelRaises ==
    /\ pc = "clean"
    /\ vi <= Len(models_data)
    /\ mi <= Len(models_data[vi].models)
    /\ CleanRaises(models_data[vi].models[mi])
    /\ log' = log \cup {Logged("error", "KeyError", <<>>)}
    /\ pc' = "done"
    /\ UNCHANGED <<vi, mi, args, VENDOR_MULTIPLIERS, models_file, status_file,
                   aliases_file, models_data, aliases_data, status_data, pre, run,
                   normVars, fmtVars, subVars>>

\* line 504: the outer loop moves to the next vendor group
NextVendor ==
    /\ pc = "clean"
    /\ vi <= Len(models_data)
    /\ mi > Len(models_data[vi].models)
    /\ vi' = vi + 1 /\ mi' = 1
    /\ UNCHANGED <<pc, args, VENDOR_MULTIPLIERS, models_file, status_file,
                   aliases_file, models_data, aliases_data, status_data, log, pre,
                   run, normVars, fmtVars, subVars>>

\* the mutation: the writes are not withheld in a dry run
AfterValidation_AlwaysWrite(a) == "write_models"

\* line 534, "if not args.dry_run": where the run goes once the costs are validated
AfterValidation(a) == IF a.dry_run THEN "sample" ELSE "write_models"

\* lines 525-534: the status tree is built and the costs are validated
Organize ==
    /\ pc = "clean"
    /\ vi > Len(models_data)
    /\ status_data' = organize_status_data(models_data)
    /\ log' = log \cup validate_model_costs(models_data)
    /\ pc' = AfterValidation(args)
    /\ UNCHANGED <<vi, mi, args, VENDOR_MULTIPLIERS, models_file, status_file,
                   aliases_file, models_data, aliases_data, pre, run, normVars, fmtVars, subVars>>

\* lines 536-537: models.json is opened for writing and the catalog dumped
WriteModels ==
    /\ pc = "write_models"
    /\ ~DumpRaises(models_data, args.decimal_places)
    /\ \E tieUp \in BOOLEAN :
         models_file' = File(dump_json(models_data, args.decimal_places, tieUp))
    /\ pc' = "write_status"
    /\ UNCHANGED <<vi, mi, args, VENDOR_MULTIPLIERS, status_file, aliases_file,
                   models_data, aliases_data, status_data, log, pre, run,
                   normVars, fmtVars, subVars>>

\* lines 536-537, 71, 562-565: open(models_path, 'w') has emptied the file
\* when the format of the first float raises; the ValueError ends the run
WriteModelsRaises ==
    /\ pc = "write_models"
    /\ DumpRaises(models_data, args.decimal_places)
    /\ models_file' = EmptyFile
    /\ log' = log \cup {Logged("error", "ValueError", <<>>)}
    /\ pc' = "done"
    /\ UNCHANGED <<vi, mi, args, VENDOR_MULTIPLIERS, status_file, aliases_file,
                   models_data, aliases_data, status_data, pre, run, normVars, fmtVars, subVars>>

\* lines 540-541
WriteStatus ==
    /\ pc = "write_status"
    /\ status_file' = File(status_data)
    /\ pc' = "write_aliases"
    /\ UNCHANGED <<vi, mi, args, VENDOR_MULTIPLIERS, models_file, aliases_file,
                   models_data, aliases_data, status_data, log, pre, run,
                   normVars, fmtVars, subVars>>

\* lines 544-545
WriteAliases ==
    /\ pc = "write_aliases"
    /\ aliases_file' = File(aliases_data)
    /\ pc' = "done"
    /\ UNCHANGED <<vi, mi, args, VENDOR_MULTIPLIERS, models_file, status_file,
                   models_data, aliases_data, status_data, log, pre, run,
                   normVars, fmtVars, subVars>>

\* lines 551-560: the dry run prints models_data['vendors'][0]['models'][0];
\* a catalog without a first model raises IndexError
DrySample ==
    /\ pc = "sample"
    /\ log' = IF Len(models_data) >= 1 /\ Len(models_data[1].models) >= 1
              THEN log
              ELSE log \cup {Logged("error", "IndexError", <<>>)}
    /\ pc' = "done"
    /\ UNCHANGED <<vi, mi, args, VENDOR_MULTIPLIERS, models_file, status_file,
                   aliases_file, models_data, aliases_data, status_data, pre, run,
                   normVars, fmtVars, subVars>>

Next ==
    \/ Start
    \/ CleanModel
    \/ CleanModelRaises
    \/ NextVendor
    \/ Organize
    \/ WriteModels
    \/ WriteModelsRaises
    \/ WriteStatus
    \/ WriteAliases
    \/ DrySample

Spec == Init /\ [][Next]_vars


-----------------------------------------------------------------------------
\* Claims about the pipeline (checked under Spec)

\* the status tree of this run has been built
Organized == status_data # <<>>

ReadyOnDemand == status_data.statuses[1].connections[1].vendors
ReadyProvisioned == status_data.statuses[1].connections[2].vendors
NotReady == status_data.statuses[2].vendors

\* how many models a catalog or a vendor list holds
RECURSIVE CountModels(_, _)
CountModels(vendors, v) ==
    IF v > Len(vendors) THEN 0
    ELSE Len(vendors[v].models) + CountModels(vendors, v + 1)

\* the positions (bucket, index) of a vendor list or catalog
Positions(vendors) ==
    {pl \in (DOMAIN vendors) \X (1..CountModels(vendors, 1)) :
        pl[2] \in DOMAIN vendors[pl[1]].models}

\* how often modelId id stands in the buckets named name
Entries(buckets, name, id) ==
    Cardinality({pl \in Positions(buckets) :
        /\ buckets[pl[1]].name = name
        /\ buckets[pl[1]].models[pl[2]].modelId = id})

\* access.onDemand == true
OnDemandTrue(model) ==
    /\ "access" \in DOMAIN model
    /\ "onDemand" \in DOMAIN model.access
    /\ model.access.onDemand = TRUE

\* how many models of the groups named name have modelId id and that readiness
Models(vendors, name, id, ready) ==
    Cardinality({pl \in Positions(vendors) :
        /\ vendors[pl[1]].name = name
        /\ vendors[pl[1]].models[pl[2]].modelId = id
        /\ OnDemandTrue(vendors[pl[1]].models[pl[2]]) = ready})

\* no two buckets of a vendor list bear the same name, and none is empty
DistinctBuckets(buckets) ==
    /\ \A i, j \in DOMAIN buckets : buckets[i].name = buckets[j].name => i = j
    /\ \A i \in DOMAIN buckets : Len(buckets[i].models) >= 1

NamesIn(vendors) == {vendors[v].name : v \in DOMAIN vendors}

IdsIn(vendors) == {vendors[pl[1]].models[pl[2]].modelId : pl \in Positions(vendors)}

\* C1: organize_status_data places every model with access.onDemand == true
\* exactly once under READY/ONDEMAND, in the bucket of its vendor group's name,
\* and every other model exactly once under NOT_READY, in the bucket of its
\* vendor group's name; the two branches together hold exactly the catalog's
\* models.
C1_StatusPartition ==
    Organized =>
        /\ DistinctBuckets(ReadyOnDemand) /\ DistinctBuckets(NotReady)
        /\ \A name \in NamesIn(models_data) \cup NamesIn(ReadyOnDemand) \cup NamesIn(NotReady) :
           \A id \in IdsIn(models_data) \cup IdsIn(ReadyOnDemand) \cup IdsIn(NotReady) :
              /\ Entries(ReadyOnDemand, name, id) = Models(models_data, name, id, TRUE)
              /\ Entries(NotReady, name, id) = Models(models_data, name, id, FALSE)
        /\ CountModels(ReadyOnDemand, 1) + CountModels(ReadyProvisioned, 1)
             + CountModels(NotReady, 1) = CountModels(models_data, 1)

\* C1 witness: a catalog of two groups of one name, one model each, one on
\* demand and one not, has been organized into one bucket per branch.
C1_Witness ==
    /\ Organized
    /\ Len(models_data) = 2 /\ models_data[1].name = models_data[2].name
    /\ Len(models_data[1].models) = 1 /\ Len(models_data[2].models) = 1
    /\ OnDemandTrue(models_data[1].models[1]) /\ ~OnDemandTrue(models_data[2].models[1])
    /\ Len(ReadyOnDemand) = 1 /\ Len(NotReady) = 1

\* the alias records the claim names for one model
ClaimedAliasRecords(model) ==
    IF "aliases" \in DOMAIN model
    THEN [i \in 1..Len(model.aliases) |-> [modelId |-> model.modelId, alias |-> model.aliases[i]]]
    ELSE <<>>

\* the alias table the claim names for a catalog: models in catalog order
RECURSIVE ClaimedAliasTable(_, _)
ClaimedAliasTable(items, k) ==
    IF k > Len(items) THEN <<>>
    ELSE ClaimedAliasRecords(items[k].model) \o ClaimedAliasTable(items, k + 1)

\* the run has ended without an error
Succeeded == pc = "done" /\ \A l \in log : l.level # "error" \/ l.what = "invalid multiplier value"

\* C7: the alias table a run produces holds, for every model of the catalog it
\* read that carries aliases, one {modelId, alias} record per alias, in catalog
\* order of the models and input order of the aliases; the other models
\* contribute nothing. A run that writes, writes that table.
C7_AliasTable ==
    /\ Organized => aliases_data = ClaimedAliasTable(Visit(pre.models.doc, 1), 1)
    /\ (Succeeded /\ ~args.dry_run)
         => aliases_file = File(ClaimedAliasTable(Visit(pre.models.doc, 1), 1))

\* C7 witness: a run over a model with aliases "claude-v3", "latest" followed
\* by a model with alias "fast" has written the three records in that order.
C7_Witness ==
    /\ Succeeded /\ ~args.dry_run
    /\ aliases_file =
         File(<< [modelId |-> Id_claude_3_opus, alias |-> A_claude_v3],
                 [modelId |-> Id_claude_3_opus, alias |-> A_latest],
                 [modelId |-> Id_small_large, alias |-> A_fast] >>)

\* the three files are as they were when the run began
FilesUntouched ==
    /\ models_file = pre.models
    /\ status_file = pre.status
    /\ aliases_file = pre.aliases

\* some model of the catalog the run read lacks a required field
SchemaErrorInInput ==
    /\ run >= 1
    /\ pre.models.kind = "doc"
    /\ \E pl \in Positions(pre.models.doc) :
         \E f \in SchemaFields : f \notin DOMAIN pre.models.doc[pl[1]].models[pl[2]]

\* C9: when a model of the catalog lacks a required field, no file is written
\* at any point of the run: catalog, status and alias files keep their pre-run
\* contents, wherever the offending model stands.
C9_SchemaErrorWritesNothing == SchemaErrorInInput => FilesUntouched

\* C9 witness: a writing run with a valid precision has cleaned a first model,
\* met the offending model after it and ended with the files untouched.
C9_Witness ==
    /\ SchemaErrorInInput
    /\ pc = "done" /\ ~args.dry_run /\ args.decimal_places >= 0
    /\ Logged("error", "KeyError", <<>>) \in log
    /\ models_data # pre.models.doc
    /\ FilesUntouched

\* C10: a run asked for a negative precision leaves the catalog file with its
\* pre-run contents and writes no output file.
C10_NegativePlacesWritesNothing ==
    (run >= 1 /\ args.decimal_places < 0) => FilesUntouched

\* some --update-vendor-multiplier pair of the run carries a value float() refuses
NonNumericOverride ==
    \E k \in DOMAIN args.update_vendor_multiplier :
        ~FloatParses(args.update_vendor_multiplier[k].multiplier)

\* C11: a run given a multiplier override that is no number is rejected before
\* the catalog is touched: no model record is rewritten and none of the three
\* files is written in that run.
C11_NonNumericMultiplierRejected ==
    (run >= 1 /\ NonNumericOverride) =>
        /\ FilesUntouched
        /\ pre.models.kind = "doc" => models_data \in {<<>>, pre.models.doc}

\* the catalog with every model cleaned and its costs normalized
CleanedCatalog(vendors) ==
    [v \in DOMAIN vendors |->
        [name |-> vendors[v].name,
         models |-> [i \in DOMAIN vendors[v].models |->
                        clean_model_config(vendors[v].models[i])]]]

\* the dry run has come through the validation
DryRunValidated == args.dry_run /\ Organized /\ pc \in {"sample", "done"}

\* C12: a dry run cleans and normalizes the catalog, extracts the aliases,
\* builds the status tree and validates the costs, and at every point of the
\* run, an error included, the catalog, status and alias files hold what they
\* held when the run began.
C12_DryRunWritesNothing ==
    /\ (run >= 1 /\ args.dry_run) => FilesUntouched
    /\ DryRunValidated =>
          /\ models_data = CleanedCatalog(pre.models.doc)
          /\ aliases_data = ClaimedAliasTable(Visit(pre.models.doc, 1), 1)
          /\ status_data = organize_status_data(models_data)
          /\ validate_model_costs(models_data) \subseteq log

\* C12 witness: a dry run over a catalog whose first vendor group is empty and
\* whose second holds a model has cleaned that model and ended in the
\* IndexError of the sample, the three files untouched.
C12_Witness ==
    /\ DryRunValidated /\ pc = "done"
    /\ Logged("error", "IndexError", <<>>) \in log
    /\ models_data # pre.models.doc
    /\ FilesUntouched

\* a tier value that is neither a number nor an {input, output} dict
UnknownFormat(value) == ~IsNumber(value) /\ ~IsSplit(value)

\* the (position, tier) pairs of a catalog whose tier is of unknown format
UnknownTiers(vendors) ==
    {x \in Positions(vendors) \X {"onDemand", "provisioned"} :
        LET model == vendors[x[1][1]].models[x[1][2]] IN
        /\ "costPerToken" \in DOMAIN model
        /\ x[2] \in DOMAIN model.costPerToken
        /\ UnknownFormat(model.costPerToken[x[2]])}

\* the warnings validate_model_costs has for a tier that is not split
FormatWarnings(tier, model_id) ==
    IF tier = "onDemand"
    THEN {Logged("warning", "onDemand pricing not in input/output format", model_id),
          Logged("warning", "onDemand pricing missing input or output fields", model_id)}
    ELSE {Logged("warning", "provisioned pricing not in input/output format", model_id),
          Logged("warning", "provisioned pricing missing input or output fields", model_id)}

\* every model carries an on-demand tier and no tier is a flat rate any more
AllNormalized(vendors) ==
    \A pl \in Positions(vendors) :
        LET model == vendors[pl[1]].models[pl[2]] IN
        /\ "costPerToken" \in DOMAIN model
        /\ "onDemand" \in DOMAIN model.costPerToken
        /\ \A t \in DOMAIN model.costPerToken : ~IsNumber(model.costPerToken[t])

\* the run has written the three documents it built
OutputsProduced ==
    /\ \E tieUp \in BOOLEAN :
         models_file = File(dump_json(models_data, args.decimal_places, tieUp))
    /\ status_file = File(status_data)
    /\ aliases_file = File(aliases_data)

\* the run read a catalog, every record of which has the required fields
ReadSoundCatalog == run >= 1 /\ pre.models.kind = "doc" /\ ~SchemaErrorInInput

ProvisionedOnly(model) == Provisionable(model) /\ ~OnDemandTrue(model)

\* C14: every status tree built has READY with the two connections ONDEMAND
\* and PROVISIONED, and the PROVISIONED one has no vendors; a model with
\* access.provisionable == true and access.onDemand == false stands under
\* NOT_READY and adds no entry under READY.
C14_ReadyProvisionedEmpty ==
    Organized =>
        /\ status_data.statuses[1].status = "READY"
        /\ Len(status_data.statuses[1].connections) = 2
        /\ status_data.statuses[1].connections[1].type = "ONDEMAND"
        /\ status_data.statuses[1].connections[2].type = "PROVISIONED"
        /\ ReadyProvisioned = <<>>
        /\ \A pl \in Positions(models_data) :
              LET name == models_data[pl[1]].name
                  model == models_data[pl[1]].models[pl[2]]
              IN  ProvisionedOnly(model) =>
                    /\ Entries(NotReady, name, model.modelId) >= 1
                    /\ Entries(ReadyOnDemand, name, model.modelId)
                         = Models(models_data, name, model.modelId, TRUE)

\* C14 witness: a catalog holding only the provisionable model "Llama3-70B",
\* which is not on demand, has been organized: READY is empty and the model
\* stands under NOT_READY.
C14_Witness ==
    /\ Organized
    /\ Len(models_data) = 1 /\ Len(models_data[1].models) = 1
    /\ ProvisionedOnly(models_data[1].models[1])
    /\ ReadyOnDemand = <<>> /\ ReadyProvisioned = <<>>
    /\ NotReady = <<[name |-> V_Anthropic,
                     models |-> <<[modelId |-> Id_Llama_70B, billing |-> "ONDEMAND"]>>]>>

\* this run has written models.json
CatalogWritten ==
    /\ ~args.dry_run /\ Organized
    /\ pc \in {"write_status", "write_aliases", "done"}
    /\ models_file.kind = "doc"

\* the strings of a record's cost tiers
TierStrings(model) ==
    {model.costPerToken[t] : t \in {k \in DOMAIN model.costPerToken :
                                      model.costPerToken[k].kind = "str"}}

\* C16: in the document dump_json writes, every string of the catalog
\* (vendor group names, modelId, provider, vendor, capabilities, string
\* tiers) stands exactly as the catalog in memory holds it.
C16_StringsWrittenAsHeld ==
    CatalogWritten =>
        /\ Len(models_file.doc) = Len(models_data)
        /\ \A v \in DOMAIN models_data :
              /\ models_file.doc[v].name = models_data[v].name
              /\ Len(models_file.doc[v].models) = Len(models_data[v].models)
              /\ \A i \in DOMAIN models_data[v].models :
                    LET held == models_data[v].models[i]
                        written == models_file.doc[v].models[i]
                    IN  /\ \A f \in StringFields : written[f] = held[f]
                        /\ written.capabilities = held.capabilities
                        /\ TierStrings(held) \subseteq TierStrings(written)

\* C17: when a writing run that succeeded is followed by a second writing run
\* with the same options on the catalog file the first left, the alias
\* document after the second run is the one the first run wrote.
C17_SecondRunKeepsAliases ==
    (run >= 2 /\ Succeeded /\ Organized /\ ~args.dry_run /\ pre.aliases.kind = "doc")
        => aliases_file = pre.aliases

====
